---------------------------- MODULE Spec2Model ----------------------------
(***************************************************************************)
(* Model of the conversation session manager of src/api_server.py: the     *)
(* process-wide table `conversations`, the helpers that create, sweep,     *)
(* extend and render sessions, and the HTTP handlers that drive them.      *)
(*                                                                         *)
(* The server runs on one asyncio event loop, so a handler runs without    *)
(* interruption from one `await` to the next.  Each action below is one    *)
(* such uninterrupted segment.  The only await inside the generation       *)
(* handlers is the backend call of generate_response, hence a generation   *)
(* request is two segments: up to the backend call, and from its answer    *)
(* to the returned envelope.                                               *)
(*                                                                         *)
(* Strings that the code builds by formatting are sequences of tokens      *)
(* (concatenation is \o), so that rendering is computed, not assumed.      *)
(* Time is counted in units of 24 hours; a segment lasts far less than a   *)
(* unit, so every datetime.now() of one segment returns the same reading.  *)
(* A uuid4 is modelled as the next element of a stream of pairwise         *)
(* different tokens.  An endpoint that only reads the store is an action   *)
(* that changes nothing, with its answer given by an operator.             *)
(***************************************************************************)
EXTENDS Integers, Sequences, FiniteSets, TLC

VARIABLES
    conversations,      \* the global dict: session id -> session record
    now,                \* the value datetime.now() returns next (at least)
    uuids,              \* how many uuid4 values have been drawn so far
    expired_sessions,   \* the ids the latest cleanup call removed (and logged)
    task                \* per request slot: the handler's inputs, locals and result

vars == <<conversations, now, uuids, expired_sessions, task>>

----------------------------------------------------------------------------
(* Bounds of the model *)

\* Number of generation requests that may be in progress at once.
NReq == 2
\* The clock stops advancing at MaxTime (units of 24 h).
MaxTime == 2
\* Number of uuid4 values that may be drawn.
MaxIds == 2
\* A request that would make a session longer than MaxTurns is not started.
MaxTurns == 3
\* Longest history a session starts with where the context builder is studied.
MaxHistory == 12

----------------------------------------------------------------------------
(* Program constants *)

\* CONVERSATION_TIMEOUT = timedelta(hours=24), in units of 24 h.
CONVERSATION_TIMEOUT == 1
\* len(frames) > 30 is rejected.
MAX_FRAMES == 30
\* messages[-10:]
CONTEXT_WINDOW == 10

Requests == 1..NReq

\* The absent session id (Python None); every other id is a string.
NoneId == "<None>"
\* The empty string, which a client may send as its session id.
EmptyId == ""

UuidStream == <<"u1", "u2", "u3", "u4", "u5", "u6", "u7", "u8">>
\* Faulty variant: the new id is derived from the size of the dict.
uuid4_from_size == UuidStream[Cardinality(DOMAIN conversations) + 1]

\* str(uuid.uuid4()): the next value of the stream.
uuid4 == UuidStream[uuids + 1]
Allocated == {UuidStream[i] : i \in 1..uuids}

\* str(n) for the numbers the code formats.
NumStr == [n \in 1..(MAX_FRAMES + 2) |->
    <<"1","2","3","4","5","6","7","8","9","10","11","12","13","14","15","16",
      "17","18","19","20","21","22","23","24","25","26","27","28","29","30",
      "31","32">>[n]]

\* Python truthiness of an optional string.
Truthy(sid) == sid # NoneId /\ sid # EmptyId

----------------------------------------------------------------------------
(* Inputs *)

Prompts == {<<"p1">>, <<"p2">>}

\* Uploaded files: an RGB image, a palette image, and bytes that are no image.
Uploads == {"rgb.png", "pal.gif", "junk.bin"}

Repeat(x, n) == [i \in 1..n |-> x]

\* The frame lists a video request may carry.
FrameLists ==
    { <<>>, <<"pal.gif">>, <<"rgb.png", "junk.bin">>,
      Repeat("rgb.png", MAX_FRAMES), Repeat("rgb.png", MAX_FRAMES + 1) }

\* The session ids a client may send: none, the empty string, or an id the
\* server handed out earlier (its session may be live, expired, swept or deleted).
ClientIds == {NoneId, EmptyId} \cup Allocated

----------------------------------------------------------------------------
(* The session store: module-level helpers of api_server.py *)

\* The message dict add_message_to_conversation builds.
Message(role, content, images, timestamp) ==
    [role |-> role, content |-> content, timestamp |-> timestamp,
     images |-> images]

\* Faulty variant: a session is expired as soon as its age reaches the timeout.
IsExpired_inclusive(conversation, current_time) ==
    current_time - conversation.last_activity >= CONVERSATION_TIMEOUT

\* The liveness test of cleanup_expired_conversations, negated.
IsExpired(conversation, current_time) ==
    current_time - conversation.last_activity > CONVERSATION_TIMEOUT

\* The ids cleanup_expired_conversations collects at time current_time.
ExpiredAt(convs, current_time) ==
    {sid \in DOMAIN convs : IsExpired(convs[sid], current_time)}

\* Faulty variant: the sweep removes nothing.
cleanup_skipped(convs, current_time) == convs

\* Faulty variant: the sweep removes every session.
cleanup_everything(convs, current_time) == [sid \in {} |-> convs[sid]]

\* cleanup_expired_conversations(): the dict after the sweep.
cleanup_expired_conversations(convs, current_time) ==
    [sid \in DOMAIN convs \ ExpiredAt(convs, current_time) |-> convs[sid]]

\* Faulty variant: a found session is replaced by a fresh one.
get_or_create_store_recreating(convs, session_id, new_session_id, t) ==
    LET swept == cleanup_expired_conversations(convs, t)
        target == IF Truthy(session_id) /\ session_id \in DOMAIN swept
                  THEN session_id ELSE new_session_id
    IN  [sid \in DOMAIN swept \cup {target} |->
            IF sid = target
            THEN [session_id |-> target,
                  messages |-> <<>>,
                  created_at |-> t,
                  last_activity |-> t]
            ELSE swept[sid]]

\* get_or_create_conversation(session_id): the dict afterwards, t being what
\* datetime.now() returns.
get_or_create_store(convs, session_id, new_session_id, t) ==
    LET swept == cleanup_expired_conversations(convs, t)
    IN  IF Truthy(session_id) /\ session_id \in DOMAIN swept
        THEN [swept EXCEPT ![session_id].last_activity = t]
        ELSE [sid \in DOMAIN swept \cup {new_session_id} |->
                IF sid = new_session_id
                THEN [session_id |-> new_session_id,
                      messages |-> <<>>,
                      created_at |-> t,
                      last_activity |-> t]
                ELSE swept[sid]]

\* Faulty variant: an id the caller supplied is returned as it is.
get_or_create_id_trusting(convs, session_id, new_session_id, t) ==
    IF Truthy(session_id) THEN session_id ELSE new_session_id

\* get_or_create_conversation(session_id): the id it returns.
get_or_create_id(convs, session_id, new_session_id, t) ==
    LET swept == cleanup_expired_conversations(convs, t)
    IN  IF Truthy(session_id) /\ session_id \in DOMAIN swept
        THEN session_id
        ELSE new_session_id

\* Whether get_or_create_conversation draws a uuid4 (the create branch).
Creates(convs, session_id, t) ==
    ~(Truthy(session_id)
      /\ session_id \in DOMAIN cleanup_expired_conversations(convs, t))

\* Faulty variant: the new message takes the place of the list's last one.
add_message_overwriting(convs, session_id, role, content, images, t) ==
    IF session_id \notin DOMAIN convs
    THEN convs
    ELSE [convs EXCEPT
            ![session_id].messages =
                IF Len(@) = 0
                THEN <<Message(role, content, images, t)>>
                ELSE [@ EXCEPT ![Len(@)] = Message(role, content, images, t)],
            ![session_id].last_activity = t]

\* Faulty variant: the new message is put in front of the list.
add_message_in_front(convs, session_id, role, content, images, t) ==
    IF session_id \notin DOMAIN convs
    THEN convs
    ELSE [convs EXCEPT
            ![session_id].messages =
                <<Message(role, content, images, t)>> \o @,
            ![session_id].last_activity = t]

\* Faulty variant: the append stamps created_at instead of last_activity.
add_message_wrong_key(convs, session_id, role, content, images, t) ==
    IF session_id \notin DOMAIN convs
    THEN convs
    ELSE [convs EXCEPT
            ![session_id].messages = Append(@, Message(role, content, images, t)),
            ![session_id].created_at = t]

\* Faulty variant: the sessions share one message list.
add_message_to_all(convs, session_id, role, content, images, t) ==
    IF session_id \notin DOMAIN convs
    THEN convs
    ELSE [sid \in DOMAIN convs |->
            IF sid = session_id
            THEN [convs[sid] EXCEPT
                    !.messages = Append(@, Message(role, content, images, t)),
                    !.last_activity = t]
            ELSE [convs[sid] EXCEPT
                    !.messages = Append(@, Message(role, content, images, t))]]

\* Faulty variant: a message for an absent session creates the session.
add_message_creating(convs, session_id, role, content, images, t) ==
    [sid \in DOMAIN convs \cup {session_id} |->
        IF sid = session_id
        THEN [session_id |-> session_id,
              messages |-> Append(IF sid \in DOMAIN convs
                                  THEN convs[sid].messages ELSE <<>>,
                                  Message(role, content, images, t)),
              created_at |-> IF sid \in DOMAIN convs
                             THEN convs[sid].created_at ELSE t,
              last_activity |-> t]
        ELSE convs[sid]]

\* add_message_to_conversation, t being what datetime.now() returns.  An absent
\* images argument (None) is the empty list.
add_message_to_conversation(convs, session_id, role, content, images, t) ==
    IF session_id \notin DOMAIN convs
    THEN convs
    ELSE [convs EXCEPT
            ![session_id].messages = Append(@, Message(role, content, images, t)),
            ![session_id].last_activity = t]

----------------------------------------------------------------------------
(* The context builder *)

RECURSIVE Join(_, _)
\* sep.join(parts) for token sequences.
Join(parts, sep) ==
    IF Len(parts) = 0 THEN <<>>
    ELSE IF Len(parts) = 1 THEN parts[1]
    ELSE parts[1] \o sep \o Join(Tail(parts), sep)

Preamble == <<"This is a conversation. Here's the conversation history:">>

\* One history line of build_conversation_context.
ContextLine(msg) ==
    LET role == IF msg.role = "user" THEN "Human" ELSE "Assistant"
    IN  IF Len(msg.images) > 0
        THEN <<role, ": ">> \o msg.content \o <<" [with image(s)]">>
        ELSE <<role, ": ">> \o msg.content

\* Faulty variant: the window keeps the oldest messages.
RecentMessages_oldest(messages) ==
    IF Len(messages) > CONTEXT_WINDOW
    THEN SubSeq(messages, 1, CONTEXT_WINDOW)
    ELSE messages

\* messages[-10:] if len(messages) > 10 else messages
RecentMessages(messages) ==
    IF Len(messages) > CONTEXT_WINDOW
    THEN SubSeq(messages, Len(messages) - CONTEXT_WINDOW + 1, Len(messages))
    ELSE messages

\* Faulty variant: the images of the session's first message are sent along.
build_conversation_context_with_history(convs, session_id, current_prompt, current_images) ==
    IF session_id \notin DOMAIN convs
    THEN <<current_prompt, current_images>>
    ELSE LET messages == convs[session_id].messages
             recent == RecentMessages(messages)
             context_parts ==
                 <<Preamble>>
                 \o [i \in 1..Len(recent) |-> ContextLine(recent[i])]
                 \o << <<"Human: ">> \o current_prompt, <<"Assistant:">> >>
         IN  IF Len(messages) = 0
             THEN <<current_prompt, current_images>>
             ELSE <<Join(context_parts, <<"\n\n">>),
                    messages[1].images \o current_images>>

\* build_conversation_context: the pair (full_context, images).
build_conversation_context(convs, session_id, current_prompt, current_images) ==
    IF session_id \notin DOMAIN convs
    THEN <<current_prompt, current_images>>
    ELSE LET messages == convs[session_id].messages
             recent == RecentMessages(messages)
             context_parts ==
                 <<Preamble>>
                 \o [i \in 1..Len(recent) |-> ContextLine(recent[i])]
                 \o << <<"Human: ">> \o current_prompt, <<"Assistant:">> >>
         IN  IF Len(messages) = 0
             THEN <<current_prompt, current_images>>
             ELSE <<Join(context_parts, <<"\n\n">>), current_images>>

----------------------------------------------------------------------------
(* Image decoding *)

\* PIL's Image.open on an upload: the image, or the failure.
ImageOpen(file) ==
    CASE file = "rgb.png" -> [ok |-> TRUE, mode |-> "RGB", pixels |-> "A"]
      [] file = "pal.gif" -> [ok |-> TRUE, mode |-> "P", pixels |-> "B"]
      [] OTHER -> [ok |-> FALSE, mode |-> "", pixels |-> ""]

\* process_uploaded_file: the RGB image, or ok = FALSE for HTTPException(400).
process_uploaded_file(file) ==
    LET image == ImageOpen(file)
    IN  IF ~image.ok THEN image
        ELSE IF image.mode # "RGB" THEN [image EXCEPT !.mode = "RGB"]
        ELSE image

\* image_to_base64: the base64 text of the PNG encoding.
image_to_base64(image) ==
    CASE image.pixels = "A" -> "iVBOR-A"
      [] image.pixels = "B" -> "iVBOR-B"
      [] OTHER -> "iVBOR"

\* The encoded form of a list of decodable uploads.
EncodeAll(files) ==
    [i \in 1..Len(files) |-> image_to_base64(process_uploaded_file(files[i]))]

\* Index of the first frame process_uploaded_file rejects, 0 if none.
FirstBadFrame(frames) ==
    LET bad == {i \in 1..Len(frames) : ~process_uploaded_file(frames[i]).ok}
    IN  IF bad = {} THEN 0 ELSE CHOOSE i \in bad : \A j \in bad : i <= j

----------------------------------------------------------------------------
(* Handler state *)

\* The JSON body generate_response posts; images is <<>> when the key is absent.
NoPayload == [sent |-> FALSE, prompt |-> <<>>, images |-> <<>>]

\* generate_response up to its await: the payload it builds.
GeneratePayload(prompt, images) ==
    [sent |-> TRUE, prompt |-> prompt,
     images |-> IF Len(images) > 0 THEN images ELSE <<>>]

NoEnvelope ==
    [built |-> FALSE, success |-> FALSE, response |-> <<>>, error |-> <<>>,
     session_id |-> NoneId]

\* APIResponse(success=True, response=..., session_id=...)
SuccessEnvelope(response, session_id) ==
    [built |-> TRUE, success |-> TRUE, response |-> response, error |-> <<>>,
     session_id |-> session_id]

\* Faulty variant: the except branch builds no envelope.
FailureEnvelope_missing(error, session_id) ==
    [built |-> FALSE, success |-> FALSE, response |-> <<>>, error |-> error,
     session_id |-> session_id]

\* APIResponse(success=False, error=str(e), session_id=...)
FailureEnvelope(error, session_id) ==
    [built |-> TRUE, success |-> FALSE, response |-> <<>>, error |-> error,
     session_id |-> session_id]

\* A slot no request is using.
IdleTask ==
    [pc |-> "idle", kind |-> "none", request_session_id |-> NoneId,
     prompt |-> <<>>, files |-> <<>>, resolved |-> FALSE,
     session_id |-> NoneId, payload |-> NoPayload, envelope |-> NoEnvelope,
     status_code |-> 0]

\* A handler suspended in `await generate_response(...)`.
AwaitingTask(kind, request_session_id, prompt, files, session_id, payload) ==
    [pc |-> "awaiting", kind |-> kind,
     request_session_id |-> request_session_id, prompt |-> prompt,
     files |-> files, resolved |-> TRUE, session_id |-> session_id,
     payload |-> payload, envelope |-> NoEnvelope, status_code |-> 0]

\* A handler that returned an envelope before reaching the backend call.
\* FastAPI answers a returned APIResponse with status 200.
ReturnedTask(kind, request_session_id, prompt, files, resolved, session_id, envelope) ==
    [pc |-> "done", kind |-> kind,
     request_session_id |-> request_session_id, prompt |-> prompt,
     files |-> files, resolved |-> resolved, session_id |-> session_id,
     payload |-> NoPayload, envelope |-> envelope, status_code |-> 200]

\* A new request runs in the lowest free slot.
NextSlot(r) ==
    /\ task[r].pc = "idle"
    /\ \A q \in 1..(r - 1) : task[q].pc # "idle"

\* The effect of get_or_create_conversation(session_id) on the uuid stream
\* and on the sweep's list of expired ids, common to every caller.
Resolve(session_id) ==
    /\ uuids' = IF Creates(conversations, session_id, now)
                THEN uuids + 1 ELSE uuids
    /\ expired_sessions' = ExpiredAt(conversations, now)

----------------------------------------------------------------------------
(* Initial state: the module has just been loaded *)

Init ==
    /\ conversations = [sid \in {} |-> IdleTask]
    /\ now = 0
    /\ uuids = 0
    /\ expired_sessions = {}
    /\ task = [r \in Requests |-> IdleTask]

----------------------------------------------------------------------------
(* Time *)

Tick ==
    /\ now < MaxTime
    /\ now' = now + 1
    /\ UNCHANGED <<conversations, uuids, expired_sessions, task>>

----------------------------------------------------------------------------
(* Introspection endpoints *)

\* POST /api/conversation/new
create_new_conversation ==
    /\ Resolve(NoneId)
    /\ conversations' = get_or_create_store(conversations, NoneId, uuid4, now)
    /\ UNCHANGED <<now, task>>

\* GET /api/conversation/{session_id}: the status and the body it answers.
get_conversation_response(convs, session_id) ==
    IF session_id \notin DOMAIN convs
    THEN [status_code |-> 404, session_id |-> session_id,
          messages |-> <<>>, total_messages |-> 0]
    ELSE [status_code |-> 200, session_id |-> session_id,
          messages |-> convs[session_id].messages,
          total_messages |-> Len(convs[session_id].messages)]

\* GET /api/conversation/{session_id}: the dict afterwards.  The handler
\* reads conversations[session_id] and writes nothing.
get_conversation_store(convs, session_id) == convs

\* GET /api/conversation/{session_id}
get_conversation(session_id) ==
    /\ get_conversation_response(conversations, session_id).status_code
           \in {200, 404}
    /\ conversations' = get_conversation_store(conversations, session_id)
    /\ UNCHANGED <<now, uuids, expired_sessions, task>>

\* DELETE /api/conversation/{session_id}: the status it answers.
delete_conversation_status(convs, session_id) ==
    IF session_id \notin DOMAIN convs THEN 404 ELSE 200

\* Faulty variant: the delete empties the dict.
delete_conversation_store_clearing(convs, session_id) ==
    IF session_id \notin DOMAIN convs
    THEN convs
    ELSE [sid \in {} |-> convs[sid]]

\* DELETE /api/conversation/{session_id}: the dict afterwards.
delete_conversation_store(convs, session_id) ==
    IF session_id \notin DOMAIN convs
    THEN convs
    ELSE [sid \in DOMAIN convs \ {session_id} |-> convs[sid]]

\* DELETE /api/conversation/{session_id}
delete_conversation(session_id) ==
    /\ conversations' = delete_conversation_store(conversations, session_id)
    /\ UNCHANGED <<now, uuids, expired_sessions, task>>

\* GET /health: active_conversations = len(conversations)
health_check_response(convs) ==
    [active_conversations |-> Cardinality(DOMAIN convs)]

\* GET /health
health_check ==
    /\ health_check_response(conversations).active_conversations >= 0
    /\ UNCHANGED vars

----------------------------------------------------------------------------
(* Generation endpoints, first segment: from the request to the backend call *)

\* str(e) of the HTTPException process_uploaded_file raises.
InvalidImageError == <<"400: ", "Invalid image file">>

\* The session_id the `except` branch of a handler puts in its envelope:
\* text_prompt reads request.session_id, image_prompt and video_frames_prompt
\* read the local session_id, which get_or_create_conversation's result rebinds.
ExceptSessionId(kind, request_session_id, resolved, session_id) ==
    IF kind = "text" THEN request_session_id
    ELSE IF resolved THEN session_id
    ELSE request_session_id

\* Faulty variant: the prompt is rendered after the user message is added.
text_prompt_rendering_late(r, request_session_id, prompt) ==
    LET session_id == get_or_create_id(conversations, request_session_id,
                                       uuid4, now)
        resolved == get_or_create_store(conversations, request_session_id,
                                        uuid4, now)
        appended == add_message_to_conversation(resolved, session_id, "user",
                                                prompt, <<>>, now)
        context == build_conversation_context(appended, session_id,
                                              prompt, <<>>)
    IN  /\ NextSlot(r)
        /\ Resolve(request_session_id)
        /\ conversations' = appended
        /\ task' = [task EXCEPT ![r] =
               AwaitingTask("text", request_session_id, prompt, <<>>,
                            session_id, GeneratePayload(context[1], <<>>))]
        /\ UNCHANGED now

\* Faulty variant: a delete of the session comes between the resolution and
\* the append of the user message.
text_prompt_interrupted(r, request_session_id, prompt) ==
    LET session_id == get_or_create_id(conversations, request_session_id,
                                       uuid4, now)
        resolved == get_or_create_store(conversations, request_session_id,
                                        uuid4, now)
        context == build_conversation_context(resolved, session_id,
                                              prompt, <<>>)
    IN  /\ NextSlot(r)
        /\ Resolve(request_session_id)
        /\ conversations' =
               add_message_to_conversation(
                   delete_conversation_store(resolved, session_id),
                   session_id, "user", prompt, <<>>, now)
        /\ task' = [task EXCEPT ![r] =
               AwaitingTask("text", request_session_id, prompt, <<>>,
                            session_id, GeneratePayload(context[1], <<>>))]
        /\ UNCHANGED now

\* POST /api/text
text_prompt(r, request_session_id, prompt) ==
    LET session_id == get_or_create_id(conversations, request_session_id,
                                       uuid4, now)
        resolved == get_or_create_store(conversations, request_session_id,
                                        uuid4, now)
        context == build_conversation_context(resolved, session_id,
                                              prompt, <<>>)
    IN  /\ NextSlot(r)
        /\ Resolve(request_session_id)
        /\ conversations' =
               add_message_to_conversation(resolved, session_id, "user",
                                           prompt, <<>>, now)
        /\ task' = [task EXCEPT ![r] =
               AwaitingTask("text", request_session_id, prompt, <<>>,
                            session_id, GeneratePayload(context[1], <<>>))]
        /\ UNCHANGED now

\* POST /api/image
image_prompt(r, request_session_id, prompt, image) ==
    LET session_id == get_or_create_id(conversations, request_session_id,
                                       uuid4, now)
        resolved == get_or_create_store(conversations, request_session_id,
                                        uuid4, now)
        pil_image == process_uploaded_file(image)
        image_b64 == image_to_base64(pil_image)
        context == build_conversation_context(resolved, session_id,
                                              prompt, <<image_b64>>)
    IN  /\ NextSlot(r)
        /\ Resolve(request_session_id)
        /\ IF ~pil_image.ok
           THEN /\ conversations' = resolved
                /\ task' = [task EXCEPT ![r] =
                       ReturnedTask("image", request_session_id, prompt,
                           <<image>>, TRUE, session_id,
                           FailureEnvelope(InvalidImageError,
                               ExceptSessionId("image", request_session_id,
                                               TRUE, session_id)))]
           ELSE /\ conversations' =
                       add_message_to_conversation(resolved, session_id,
                           "user", prompt, <<image_b64>>, now)
                /\ task' = [task EXCEPT ![r] =
                       AwaitingTask("image", request_session_id, prompt,
                           <<image>>, session_id,
                           GeneratePayload(context[1], context[2]))]
        /\ UNCHANGED now

\* frame_rate as the client sends it by default.
FrameRate == <<"1.0">>

\* enhanced_prompt of video_frames_prompt.
EnhancedPrompt(prompt, frames) ==
    prompt \o <<"\n\n", "This is a sequence of ", NumStr[Len(frames)],
                " video frames captured at ">> \o FrameRate
           \o <<" frame(s) per second.">>

\* str(e) of the HTTPException the frame loop raises for frame i (1-based).
FrameError(i) ==
    <<"400: ", "Error processing frame ", NumStr[i], ": ">> \o InvalidImageError

\* if not frames
NoFrames(frames) == Len(frames) = 0

\* Faulty variant: the limit itself is refused.
TooManyFrames_off_by_one(frames) == Len(frames) >= MAX_FRAMES

\* if len(frames) > 30
TooManyFrames(frames) == Len(frames) > MAX_FRAMES

\* video_frames_prompt when the frame count is refused: nothing but the
\* envelope is built.
video_frames_rejected(r, request_session_id, prompt, frames, error) ==
    /\ task' = [task EXCEPT ![r] =
           ReturnedTask("video", request_session_id, prompt, frames, FALSE,
               request_session_id,
               FailureEnvelope(error,
                   ExceptSessionId("video", request_session_id, FALSE,
                                   request_session_id)))]
    /\ UNCHANGED <<conversations, now, uuids, expired_sessions>>

\* POST /api/video
video_frames_prompt(r, request_session_id, prompt, frames) ==
    LET session_id == get_or_create_id(conversations, request_session_id,
                                       uuid4, now)
        resolved == get_or_create_store(conversations, request_session_id,
                                        uuid4, now)
        bad == FirstBadFrame(frames)
        image_b64_list == EncodeAll(frames)
        enhanced_prompt == EnhancedPrompt(prompt, frames)
        context == build_conversation_context(resolved, session_id,
                                              enhanced_prompt, image_b64_list)
    IN  /\ NextSlot(r)
        /\ IF NoFrames(frames)
           THEN video_frames_rejected(r, request_session_id, prompt, frames,
                                      <<"400: ", "No frames provided">>)
           ELSE IF TooManyFrames(frames)
           THEN video_frames_rejected(r, request_session_id, prompt, frames,
                                      <<"400: ", "Too many frames (max 30)">>)
           ELSE /\ Resolve(request_session_id)
                /\ IF bad # 0
                   THEN /\ conversations' = resolved
                        /\ task' = [task EXCEPT ![r] =
                               ReturnedTask("video", request_session_id,
                                   prompt, frames, TRUE, session_id,
                                   FailureEnvelope(FrameError(bad),
                                       ExceptSessionId("video",
                                           request_session_id, TRUE,
                                           session_id)))]
                   ELSE /\ conversations' =
                               add_message_to_conversation(resolved,
                                   session_id, "user", enhanced_prompt,
                                   image_b64_list, now)
                        /\ task' = [task EXCEPT ![r] =
                               AwaitingTask("video", request_session_id,
                                   prompt, frames, session_id,
                                   GeneratePayload(context[1], context[2]))]
                /\ UNCHANGED now

----------------------------------------------------------------------------
(* Generation endpoints, second segment: from the backend's answer on *)

\* What the await of client.post in generate_response can end with.
BackendOutcomes == {"ok", "no_response_key", "timeout", "bad_status", "transport"}

\* Whether generate_response returns (rather than raises) on an outcome.
Returns(outcome) == outcome \in {"ok", "no_response_key"}

\* result.get("response", "No response generated")
ResponseText(outcome) ==
    IF outcome = "ok" THEN <<"a1">> ELSE <<"No response generated">>

\* str(e) of the HTTPException generate_response raises.  A non-200 status
\* raises inside the try and is wrapped by the `except Exception` clause.
GenerationError(outcome) ==
    CASE outcome = "timeout" -> <<"504: ", "Request timeout">>
      [] outcome = "bad_status" ->
            <<"500: ", "Generation error: ", "503: ", "Ollama API error">>
      [] OTHER -> <<"500: ", "Generation error: ", "connection failed">>

\* Faulty variant: the assistant message is recorded twice.
StoreAfterGeneration_twice(convs, session_id, outcome, t) ==
    IF Returns(outcome)
    THEN add_message_to_conversation(
             add_message_to_conversation(convs, session_id, "assistant",
                                         ResponseText(outcome), <<>>, t),
             session_id, "assistant", ResponseText(outcome), <<>>, t)
    ELSE convs

\* Faulty variant: a failed generation takes the user message back.
StoreAfterGeneration_rollback(convs, session_id, outcome, t) ==
    IF Returns(outcome)
    THEN add_message_to_conversation(convs, session_id, "assistant",
                                     ResponseText(outcome), <<>>, t)
    ELSE IF session_id \in DOMAIN convs
            /\ Len(convs[session_id].messages) > 0
    THEN [convs EXCEPT ![session_id].messages = SubSeq(@, 1, Len(@) - 1)]
    ELSE convs

\* The store once the backend call of a handler has ended: the assistant
\* message is added when generate_response returned, and nothing is done to
\* the store when it raised.
StoreAfterGeneration(convs, session_id, outcome, t) ==
    IF Returns(outcome)
    THEN add_message_to_conversation(convs, session_id, "assistant",
                                     ResponseText(outcome), <<>>, t)
    ELSE convs

\* The rest of text_prompt / image_prompt / video_frames_prompt once the
\* backend call has ended.
generate_response_done(r, outcome) ==
    LET self == task[r]
    IN  /\ self.pc = "awaiting"
        /\ conversations' =
               StoreAfterGeneration(conversations, self.session_id, outcome,
                                    now)
        /\ IF Returns(outcome)
           THEN task' = [task EXCEPT ![r] =
                       [self EXCEPT !.pc = "done",
                           !.envelope = SuccessEnvelope(
                               ResponseText(outcome), self.session_id),
                           !.status_code = 200]]
           ELSE task' = [task EXCEPT ![r] =
                       [self EXCEPT !.pc = "done",
                           !.envelope = FailureEnvelope(
                               GenerationError(outcome),
                               ExceptSessionId(self.kind,
                                   self.request_session_id, TRUE,
                                   self.session_id)),
                           !.status_code = 200]]
        /\ UNCHANGED <<now, uuids, expired_sessions>>

\* The envelope has been sent: the handler's frame is gone.
respond(r) ==
    /\ task[r].pc = "done"
    /\ task' = [task EXCEPT ![r] = IdleTask]
    /\ UNCHANGED <<conversations, now, uuids, expired_sessions>>

----------------------------------------------------------------------------
(* Guards that keep the model finite; none of them is the program's *)

RECURSIVE TotalTurns(_, _)
\* The number of messages stored in the sessions ids of convs.
TotalTurns(convs, ids) ==
    IF ids = {} THEN 0
    ELSE LET sid == CHOOSE x \in ids : TRUE
         IN  Len(convs[sid].messages) + TotalTurns(convs, ids \ {sid})

\* The handlers suspended in the backend call.
InFlight == {q \in Requests : task[q].pc = "awaiting"}

\* A uuid4 is left for a call of get_or_create_conversation that creates.
MayResolve(session_id) ==
    Creates(conversations, session_id, now) => uuids < MaxIds

\* The two turns of one more request fit the store, whatever the suspended
\* handlers append.
Fits ==
    TotalTurns(conversations, DOMAIN conversations) + Cardinality(InFlight) + 2
        <= MaxTurns

\* No generation request is in progress.
Alone == \A q \in Requests : task[q].pc = "idle"

----------------------------------------------------------------------------
(* Specification: every endpoint, every input, handlers interleaved *)

\* An id that no session was ever created under.
UnknownId == "no-such-id"

\* The ids a client may put in the path of an introspection request.
PathIds == Allocated \cup {UnknownId}

Next ==
    \/ Tick
    \/ MayResolve(NoneId) /\ create_new_conversation
    \/ \E session_id \in PathIds : get_conversation(session_id)
    \/ \E session_id \in PathIds : delete_conversation(session_id)
    \/ health_check
    \/ \E r \in Requests, sid \in ClientIds, prompt \in Prompts :
           MayResolve(sid) /\ Fits /\ text_prompt(r, sid, prompt)
    \/ \E r \in Requests, sid \in ClientIds, prompt \in Prompts,
          image \in Uploads :
           MayResolve(sid) /\ Fits /\ image_prompt(r, sid, prompt, image)
    \/ \E r \in Requests, sid \in ClientIds, prompt \in Prompts,
          frames \in FrameLists :
           MayResolve(sid) /\ Fits
               /\ video_frames_prompt(r, sid, prompt, frames)
    \/ \E r \in Requests, outcome \in BackendOutcomes :
           generate_response_done(r, outcome)
    \/ \E r \in Requests : respond(r)

Spec == Init /\ [][Next]_vars

----------------------------------------------------------------------------
(* The store under the clock: text requests, one at a time *)

NextExpiry ==
    \/ Tick
    \/ MayResolve(NoneId) /\ create_new_conversation
    \/ \E session_id \in PathIds : get_conversation(session_id)
    \/ \E session_id \in PathIds : delete_conversation(session_id)
    \/ health_check
    \/ \E r \in Requests, sid \in ClientIds :
           Alone /\ MayResolve(sid) /\ Fits /\ text_prompt(r, sid, <<"p1">>)
    \/ \E r \in Requests, outcome \in {"ok", "timeout"} :
           generate_response_done(r, outcome)
    \/ \E r \in Requests : respond(r)

SpecExpiry == Init /\ [][NextExpiry]_vars

----------------------------------------------------------------------------
(* The three handlers on every input shape, one request at a time, the     *)
(* clock stopped                                                           *)

NextRequests ==
    \/ MayResolve(NoneId) /\ create_new_conversation
    \/ \E session_id \in PathIds : get_conversation(session_id)
    \/ \E session_id \in PathIds : delete_conversation(session_id)
    \/ health_check
    \/ \E r \in Requests, sid \in ClientIds, prompt \in Prompts :
           Alone /\ MayResolve(sid) /\ Fits /\ text_prompt(r, sid, prompt)
    \/ \E r \in Requests, sid \in ClientIds, image \in Uploads :
           Alone /\ MayResolve(sid) /\ Fits
               /\ image_prompt(r, sid, <<"p1">>, image)
    \/ \E r \in Requests, sid \in ClientIds, frames \in FrameLists :
           Alone /\ MayResolve(sid) /\ Fits
               /\ video_frames_prompt(r, sid, <<"p2">>, frames)
    \/ \E r \in Requests, outcome \in BackendOutcomes :
           generate_response_done(r, outcome)
    \/ \E r \in Requests : respond(r)

SpecRequests == Init /\ [][NextRequests]_vars

\* The backend call of generate_response ends: the server answers, the
\* connection fails, or httpx gives up after timeout=60.0 seconds.
BackendCallEnds(r) ==
    WF_vars(\E outcome \in BackendOutcomes : generate_response_done(r, outcome))

\* The same handlers, every backend call ending.
SpecRequestsLive ==
    SpecRequests /\ \A r \in Requests : BackendCallEnds(r)

----------------------------------------------------------------------------
(* Interleaved handlers: each slot runs one text or image request, the     *)
(* clock stopped                                                           *)

NextConcurrent ==
    \/ MayResolve(NoneId) /\ create_new_conversation
    \/ \E session_id \in PathIds : get_conversation(session_id)
    \/ \E session_id \in PathIds : delete_conversation(session_id)
    \/ \E r \in Requests, sid \in {NoneId} \cup Allocated :
           MayResolve(sid) /\ text_prompt(r, sid, <<"p1">>)
    \/ \E r \in Requests, sid \in {NoneId} \cup Allocated :
           MayResolve(sid) /\ image_prompt(r, sid, <<"p2">>, "pal.gif")
    \/ \E r \in Requests, outcome \in {"ok", "timeout"} :
           generate_response_done(r, outcome)

SpecConcurrent == Init /\ [][NextConcurrent]_vars

----------------------------------------------------------------------------
(* The context builder on long histories: one session that already holds   *)
(* up to MaxHistory messages, then one request on it                       *)

\* The i-th stored message of a history in which every m-th message is the
\* assistant's and, for k > 0, the user's messages at positions 1, 1 + 2k,
\* ... carry an image.  The content names the position.
HistoryMessage(i, m, k) ==
    LET role == IF i % m = 0 THEN "assistant" ELSE "user"
        images == IF role = "user" /\ k > 0 /\ i % (2 * k) = 1
                  THEN <<image_to_base64(process_uploaded_file("rgb.png"))>>
                  ELSE <<>>
    IN  Message(role, <<NumStr[i]>>, images, 0)

\* What n requests on one session, some of them failed, leave in it.
History(n, m, k) == [i \in 1..n |-> HistoryMessage(i, m, k)]

InitRender ==
    /\ \E n \in 0..MaxHistory, m \in {2, 3}, k \in 0..2 :
           conversations =
               [sid \in {UuidStream[1]} |->
                   [session_id |-> sid, messages |-> History(n, m, k),
                    created_at |-> 0, last_activity |-> 0]]
    /\ now = 0
    /\ uuids = 1
    /\ expired_sessions = {}
    /\ task = [r \in Requests |-> IdleTask]

NextRender ==
    \/ \E r \in Requests, prompt \in Prompts :
           Alone /\ text_prompt(r, UuidStream[1], prompt)
    \/ \E r \in Requests :
           Alone /\ image_prompt(r, UuidStream[1], <<"p1">>, "rgb.png")
    \/ \E r \in Requests :
           Alone /\ video_frames_prompt(r, UuidStream[1], <<"p2">>,
                                        <<"pal.gif">>)
    \/ \E r \in Requests, outcome \in {"ok", "timeout"} :
           generate_response_done(r, outcome)

SpecRender == InitRender /\ [][NextRender]_vars

----------------------------------------------------------------------------
(* The sweep on stores of every age: MaxIds sessions created and last      *)
(* used at any times up to now, then one more creation, text requests one  *)
(* at a time, and the clock                                                *)

\* The ids of the sessions the store starts with.
SweepIds == {UuidStream[i] : i \in 1..MaxIds}

InitSweep ==
    /\ now \in 0..MaxTime
    /\ uuids = MaxIds
    /\ \E created, active \in [SweepIds -> 0..MaxTime] :
           /\ \A sid \in SweepIds :
                  created[sid] <= active[sid] /\ active[sid] <= now
           /\ conversations =
                  [sid \in SweepIds |->
                      [session_id |-> sid, messages |-> <<>>,
                       created_at |-> created[sid],
                       last_activity |-> active[sid]]]
    /\ expired_sessions = {}
    /\ task = [r \in Requests |-> IdleTask]

\* One uuid4 beyond those of the initial store is left.
MayResolveOnce(session_id) ==
    Creates(conversations, session_id, now) => uuids <= MaxIds

NextSweep ==
    \/ Tick
    \/ MayResolveOnce(NoneId) /\ create_new_conversation
    \/ \E r \in Requests, sid \in ClientIds :
           Alone /\ MayResolveOnce(sid) /\ Fits
               /\ text_prompt(r, sid, <<"p1">>)
    \/ \E r \in Requests, outcome \in {"ok", "timeout"} :
           generate_response_done(r, outcome)
    \/ \E r \in Requests : respond(r)

SpecSweep == InitSweep /\ [][NextSweep]_vars

----------------------------------------------------------------------------
(* Vocabulary of the properties *)

\* The user message a request in slot state self adds, written at time t.
UserTurn(self, t) ==
    Message("user",
            IF self.kind = "video"
            THEN EnhancedPrompt(self.prompt, self.files) ELSE self.prompt,
            IF self.kind = "text" THEN <<>> ELSE EncodeAll(self.files),
            t)

\* Slot r has just run the first segment of a request.
Started(r) == task[r].pc = "idle" /\ task'[r].pc # "idle"

\* Slot r has just run the second segment of a request, which failed.
GenerationFailed(r) ==
    /\ task[r].pc = "awaiting"
    /\ task'[r].pc = "done"
    /\ ~task'[r].envelope.success

\* Some upload of the list is no image.
DecodeFails(files) ==
    \E i \in 1..Len(files) : ~process_uploaded_file(files[i]).ok

LastOf(seq) == seq[Len(seq)]

----------------------------------------------------------------------------
(* C1: a lookup of a stored session whose last_activity is older than the  *)
(* time-out answers NotFound (404), whether or not a sweep has run since   *)
(* it expired.                                                             *)

C1_ExpiredLookupIsNotFound ==
    \A sid \in DOMAIN conversations :
        IsExpired(conversations[sid], now)
            => get_conversation_response(conversations, sid).status_code = 404

----------------------------------------------------------------------------
(* C2: a request that fails after its session was resolved returns a       *)
(* failure envelope whose session id is the id get_or_create_conversation  *)
(* returned for it.                                                        *)

C2_FailureCarriesResolvedId ==
    \A r \in Requests :
        (/\ task[r].pc = "done"
         /\ task[r].resolved
         /\ ~task[r].envelope.success)
            => task[r].envelope.session_id = task[r].session_id

----------------------------------------------------------------------------
(* C3: the first segment of a request adds exactly its user message to the *)
(* end of the session it resolved; a generation that fails afterwards      *)
(* changes no session, so that (no other request running) the session ends *)
(* with that user message and no assistant message after it, and the       *)
(* envelope reports failure.                                               *)

C3_UserTurnKeptOnFailure ==
    [][\A r \in Requests :
         /\ (Started(r) /\ task'[r].payload.sent) =>
                LET sid == task'[r].session_id
                    before == IF sid \in DOMAIN conversations
                              THEN conversations[sid].messages ELSE <<>>
                IN  /\ sid \in DOMAIN conversations'
                    /\ conversations'[sid].messages =
                           Append(before, UserTurn(task'[r], now))
         /\ GenerationFailed(r) =>
                /\ conversations' = conversations
                /\ task'[r].envelope.built
                /\ task[r].session_id \in DOMAIN conversations =>
                       LastOf(conversations'[task[r].session_id].messages)
                           = UserTurn(task[r], now)
      ]_vars

\* A failed request has left its user message behind an earlier message.
C3_Witness ==
    \E r \in Requests :
        /\ task[r].pc = "done"
        /\ task[r].payload.sent
        /\ ~task[r].envelope.success
        /\ task[r].session_id \in DOMAIN conversations
        /\ LET messages == conversations[task[r].session_id].messages
           IN  /\ Len(messages) = 2
               /\ LastOf(messages) = UserTurn(task[r], now)

----------------------------------------------------------------------------
(* C4: an image or video request with an upload that cannot be decoded     *)
(* leaves the store as it was: same ids, same messages, same               *)
(* last_activity.                                                          *)

C4_DecodeFailureLeavesStore ==
    [][\A r \in Requests :
         (/\ Started(r)
          /\ task'[r].kind \in {"image", "video"}
          /\ DecodeFails(task'[r].files))
             => conversations' = conversations
      ]_vars

----------------------------------------------------------------------------
(* C5: get_or_create_conversation called with the id of a stored session   *)
(* whose last_activity is older than the time-out does not return that id: *)
(* it returns an id never handed out before, naming a session created now  *)
(* that holds nothing but the calling request's own user message.          *)

C5_ExpiredIdYieldsNewSession ==
    [][\A r \in Requests :
         (/\ Started(r)
          /\ task'[r].resolved
          /\ task'[r].request_session_id \in DOMAIN conversations
          /\ IsExpired(conversations[task'[r].request_session_id], now))
             => LET new == task'[r].session_id
                IN  /\ new # task'[r].request_session_id
                    /\ new \notin Allocated
                    /\ task'[r].request_session_id \notin DOMAIN conversations'
                    /\ new \in DOMAIN conversations'
                    /\ conversations'[new].created_at = now
                    /\ conversations'[new].messages
                           \in {<<>>, <<UserTurn(task'[r], now)>>}
      ]_vars

\* A request named a session that its own call swept as expired.
C5_Witness ==
    \E r \in Requests :
        /\ task[r].pc # "idle"
        /\ task[r].resolved
        /\ task[r].request_session_id \in expired_sessions
        /\ task[r].session_id # task[r].request_session_id
        /\ task[r].session_id \in DOMAIN conversations

----------------------------------------------------------------------------
(* C6: when each slot runs one request and the requests on one session     *)
(* interleave in any order, then once all of them have finished the        *)
(* session holds one user message per request and one assistant message    *)
(* per request whose generation succeeded, each request's user message as  *)
(* often as it was sent: none lost, duplicated or overwritten.             *)

\* The requests that resolved to session sid.
RequestsOn(sid) ==
    {r \in Requests :
        task[r].pc # "idle" /\ task[r].resolved /\ task[r].session_id = sid}

\* The positions of the messages of a role in a message list.
WithRole(messages, role) ==
    {i \in 1..Len(messages) : messages[i].role = role}

C6_NoLostAppend ==
    \A sid \in DOMAIN conversations :
        LET on == RequestsOn(sid)
            succeeded == {r \in on : task[r].envelope.success}
            messages == conversations[sid].messages
        IN  (\A r \in on : task[r].pc = "done") =>
                /\ Len(messages) = Cardinality(on) + Cardinality(succeeded)
                /\ Cardinality(WithRole(messages, "user")) = Cardinality(on)
                /\ Cardinality(WithRole(messages, "assistant"))
                       = Cardinality(succeeded)
                /\ \A r \in on :
                       Cardinality({i \in 1..Len(messages) :
                                       messages[i] = UserTurn(task[r], now)})
                           = Cardinality({q \in on :
                                 UserTurn(task[q], now) = UserTurn(task[r], now)})

\* Two requests on one session both sent their user message before either
\* got its answer, and both succeeded.
C6_Witness ==
    \E sid \in DOMAIN conversations :
        /\ Cardinality(RequestsOn(sid)) >= 2
        /\ \A r \in RequestsOn(sid) :
               task[r].pc = "done" /\ task[r].envelope.success
        /\ Len(conversations[sid].messages) >= 4
        /\ conversations[sid].messages[1].role = "user"
        /\ conversations[sid].messages[2].role = "user"
        /\ conversations[sid].messages[3].role = "assistant"

----------------------------------------------------------------------------
(* C7: while a session stays in the store, a step changes what a lookup of *)
(* it returns only by adding one message at the end: the messages returned *)
(* before are a prefix of those returned after.                            *)

IsPrefix(a, b) == Len(a) <= Len(b) /\ SubSeq(b, 1, Len(a)) = a

C7_TurnsAppendOnly ==
    [][\A sid \in DOMAIN conversations \cap DOMAIN conversations' :
         LET before == get_conversation_response(conversations, sid).messages
             after == get_conversation_response(conversations', sid).messages
         IN  /\ IsPrefix(before, after)
             /\ Len(after) <= Len(before) + 1
      ]_vars

\* A session that requests have extended several times.
C7_Witness ==
    \E sid \in DOMAIN conversations :
        /\ Len(conversations[sid].messages) >= 3
        /\ get_conversation_response(conversations, sid).total_messages >= 3

----------------------------------------------------------------------------
(* C8: the images of every backend call are the encoded uploads of the     *)
(* request that makes it (none for a text request), whatever images the    *)
(* session's stored messages carry.                                        *)

\* The encoded uploads of the request in slot state self.
RequestImages(self) ==
    IF self.kind = "text" THEN <<>> ELSE EncodeAll(self.files)

C8_OnlyCurrentImagesSent ==
    \A r \in Requests :
        task[r].payload.sent
            => task[r].payload.images = RequestImages(task[r])

\* A backend call made for a session that already stored a message with
\* images, by a text request and by an image request.
C8_Witness ==
    \E r \in Requests :
        /\ task[r].payload.sent
        /\ task[r].session_id \in DOMAIN conversations
        /\ LET messages == conversations[task[r].session_id].messages
           IN  /\ Len(messages) >= 2
               /\ Len(messages[1].images) > 0
               /\ messages[2] = UserTurn(task[r], now)

----------------------------------------------------------------------------
(* C9: a video request with no frame or with more than 30 frames is        *)
(* refused and leaves the store, the uuid stream and the sweep untouched;  *)
(* one with 1 to 30 frames gets past the frame-count test, to              *)
(* get_or_create_conversation.                                             *)

C9_FrameCountGate ==
    [][\A r \in Requests :
         (Started(r) /\ task'[r].kind = "video") =>
             IF Len(task'[r].files) = 0 \/ Len(task'[r].files) > 30
             THEN /\ task'[r].pc = "done"
                  /\ ~task'[r].envelope.success
                  /\ ~task'[r].resolved
                  /\ UNCHANGED <<conversations, uuids, expired_sessions>>
             ELSE task'[r].resolved
      ]_vars

\* A request with 31 frames was refused after one with 30 frames was served.
C9_Witness ==
    \E r \in Requests :
        /\ task[r].pc = "done"
        /\ task[r].kind = "video"
        /\ Len(task[r].files) = 31
        /\ ~task[r].resolved
        /\ \E sid \in DOMAIN conversations :
               \E i \in 1..Len(conversations[sid].messages) :
                   Len(conversations[sid].messages[i].images) = 30

----------------------------------------------------------------------------
(* C10: a request with a bad frame count or an upload that is no image     *)
(* ends with an error status of the transport and without an envelope.     *)

\* The request in slot state self is structurally invalid.
StructurallyInvalid(self) ==
    \/ self.kind = "video" /\ (Len(self.files) = 0 \/ Len(self.files) > 30)
    \/ self.kind \in {"image", "video"} /\ DecodeFails(self.files)

C10_InvalidInputHasNoEnvelope ==
    \A r \in Requests :
        (task[r].pc = "done" /\ StructurallyInvalid(task[r]))
            => ~task[r].envelope.built /\ task[r].status_code >= 400

----------------------------------------------------------------------------
(* C11: if every backend call ends (with an answer, an error or the        *)
(* timeout), every request that reached the backend call ends with an      *)
(* envelope, one with success = false when the call failed; and a request  *)
(* that ended has an envelope, so no exception leaves a handler.           *)

C11_EveryRequestReturns ==
    /\ \A r \in Requests :
           (task[r].pc = "awaiting")
               ~> (task[r].pc = "done" /\ task[r].envelope.built)
    /\ [](\A r \in Requests :
              task[r].pc = "done" =>
                  /\ task[r].envelope.built
                  /\ task[r].status_code = 200)
    /\ [][\A r \in Requests, outcome \in BackendOutcomes :
              (generate_response_done(r, outcome) /\ ~Returns(outcome))
                  => /\ task'[r].envelope.built
                     /\ ~task'[r].envelope.success]_vars

\* A request whose backend call timed out has returned its failure envelope.
C11_Witness ==
    \E r \in Requests :
        /\ task[r].pc = "done"
        /\ task[r].payload.sent
        /\ task[r].envelope.built
        /\ ~task[r].envelope.success
        /\ task[r].envelope.error = <<"504: ", "Request timeout">>

----------------------------------------------------------------------------
(* C12: the prompt a request sends to the backend is the reference         *)
(* rendering of the session's history and the request's text: the text     *)
(* alone when there is no history; otherwise the preamble, a line for each *)
(* of the last min(10, n) stored messages, oldest first, "Human: text"     *)
(* and "Assistant:", separated by blank lines.                             *)

\* The line of one stored turn.
ReferenceLine(turn) ==
    <<IF turn.role = "user" THEN "Human" ELSE "Assistant", ": ">>
        \o turn.content
        \o (IF turn.images # <<>> THEN <<" [with image(s)]">> ELSE <<>>)

RECURSIVE ReferenceLines(_, _)
\* The lines of turns i, i + 1, ..., each followed by a blank line.
ReferenceLines(turns, i) ==
    IF i > Len(turns) THEN <<>>
    ELSE ReferenceLine(turns[i]) \o <<"\n\n">> \o ReferenceLines(turns, i + 1)

ReferenceRendering(turns, newText) ==
    IF Len(turns) = 0 THEN newText
    ELSE LET first == IF Len(turns) > 10 THEN Len(turns) - 9 ELSE 1
         IN  <<"This is a conversation. Here's the conversation history:",
               "\n\n">>
             \o ReferenceLines(turns, first)
             \o <<"Human: ">> \o newText \o <<"\n\n", "Assistant:">>

C12_RenderIsReference ==
    [][\A r \in Requests :
         (Started(r) /\ task'[r].payload.sent) =>
             LET sid == task'[r].session_id
                 before == IF sid \in DOMAIN conversations
                           THEN conversations[sid].messages ELSE <<>>
             IN  task'[r].payload.prompt =
                     ReferenceRendering(before,
                                        UserTurn(task'[r], now).content)
      ]_vars

\* A request rendered a history of more than 10 messages, some with images.
C12_Witness ==
    \E r \in Requests :
        /\ task[r].pc = "awaiting"
        /\ task[r].session_id \in DOMAIN conversations
        /\ LET messages == conversations[task[r].session_id].messages
           IN  /\ Len(messages) > 11
               /\ messages[Len(messages)] = UserTurn(task[r], now)
               /\ \E i \in 1..(Len(messages) - 1) : messages[i].images # <<>>

----------------------------------------------------------------------------
(* C13: get_or_create_conversation called with the id of a stored session  *)
(* that has not expired returns that id, draws no uuid4, adds no session,  *)
(* and changes of that session only last_activity, which becomes now; the  *)
(* handler that called it then adds at most its own user message.          *)

\* The id names a stored session that the sweep at this moment would keep.
Live(session_id) ==
    /\ session_id \in DOMAIN conversations
    /\ ~IsExpired(conversations[session_id], now)

C13_LiveIdIsKept ==
    [][/\ \A sid \in DOMAIN conversations :
              Live(sid) =>
                  LET after == get_or_create_store(conversations, sid,
                                                   uuid4, now)
                  IN  /\ get_or_create_id(conversations, sid, uuid4, now)
                             = sid
                      /\ DOMAIN after \subseteq DOMAIN conversations
                      /\ after[sid] = [conversations[sid]
                                          EXCEPT !.last_activity = now]
       /\ \A r \in Requests :
              (Started(r) /\ task'[r].resolved
                   /\ Live(task'[r].request_session_id)) =>
                  LET sid == task'[r].request_session_id
                  IN  /\ task'[r].session_id = sid
                      /\ uuids' = uuids
                      /\ DOMAIN conversations' \subseteq DOMAIN conversations
                      /\ conversations'[sid].session_id = sid
                      /\ conversations'[sid].created_at
                             = conversations[sid].created_at
                      /\ conversations'[sid].last_activity = now
                      /\ conversations'[sid].messages \in
                             {conversations[sid].messages,
                              Append(conversations[sid].messages,
                                     UserTurn(task'[r], now))}
      ]_vars

\* A request resolved to the session it named, later than the session's
\* creation.
C13_Witness ==
    \E r \in Requests :
        /\ task[r].pc # "idle"
        /\ task[r].resolved
        /\ task[r].session_id = task[r].request_session_id
        /\ task[r].session_id \in DOMAIN conversations
        /\ LET conversation == conversations[task[r].session_id]
           IN  /\ conversation.last_activity > conversation.created_at
               /\ Len(conversation.messages) >= 1

----------------------------------------------------------------------------
(* C14: get_or_create_conversation called with no id, with the empty       *)
(* string or with an id that is not in the dict returns a new uuid4 and    *)
(* inserts one empty session under it, none under the caller's id.         *)

\* The id makes get_or_create_conversation take its create branch, whatever
\* the sweep does.
NamesNoSession(session_id) ==
    ~Truthy(session_id) \/ session_id \notin DOMAIN conversations

C14_UnknownIdCreates ==
    [][/\ \A sid \in ClientIds :
              NamesNoSession(sid) =>
                  LET after == get_or_create_store(conversations, sid,
                                                   uuid4, now)
                      new == get_or_create_id(conversations, sid, uuid4, now)
                  IN  /\ new \notin DOMAIN conversations
                      /\ new \notin Allocated
                      /\ new # sid
                      /\ DOMAIN after =
                             (DOMAIN conversations
                                  \ ExpiredAt(conversations, now)) \cup {new}
                      /\ sid \notin DOMAIN after
                      /\ after[new].messages = <<>>
                      /\ after[new].created_at = now
                      /\ after[new].last_activity = now
       /\ \A r \in Requests :
              (Started(r) /\ task'[r].resolved
                   /\ NamesNoSession(task'[r].request_session_id)) =>
                  LET new == task'[r].session_id
                  IN  /\ new \notin DOMAIN conversations
                      /\ new \notin Allocated
                      /\ new # task'[r].request_session_id
                      /\ uuids' = uuids + 1
                      /\ DOMAIN conversations' =
                             (DOMAIN conversations
                                  \ ExpiredAt(conversations, now)) \cup {new}
                      /\ task'[r].request_session_id
                             \notin DOMAIN conversations'
                      /\ conversations'[new].created_at = now
                      /\ conversations'[new].messages \in
                             {<<>>, <<UserTurn(task'[r], now)>>}
      ]_vars

\* A request that named an id no longer in the dict got a new session.
C14_Witness ==
    \E r \in Requests :
        /\ task[r].pc # "idle"
        /\ task[r].resolved
        /\ Truthy(task[r].request_session_id)
        /\ task[r].request_session_id \notin DOMAIN conversations
        /\ task[r].session_id # task[r].request_session_id
        /\ task[r].session_id \in DOMAIN conversations

----------------------------------------------------------------------------
(* C15: provided uuid4 never repeats a value, a session is only ever       *)
(* created under an id that no session was created under before, whether   *)
(* or not the earlier sessions are still in the dict.                      *)

C15_CreatedIdsAreNew ==
    [][\A sid \in DOMAIN conversations' \ DOMAIN conversations :
           /\ sid \notin Allocated
           /\ sid \in Allocated'
           /\ uuids' = uuids + 1
      ]_vars

\* A session was created after an earlier one had been deleted or swept.
C15_Witness ==
    /\ uuids >= 2
    /\ UuidStream[1] \notin DOMAIN conversations
    /\ UuidStream[2] \in DOMAIN conversations

----------------------------------------------------------------------------
(* C16: a delete of a stored id answers 200, removes that session and no   *)
(* other, and leaves the others as they were; afterwards a lookup and a    *)
(* delete of the id answer 404, and the id never returns to the dict.  A   *)
(* delete of an id that is not stored answers 404 and changes nothing.     *)

C16_DeleteRemovesOneForGood ==
    /\ [](\A sid \in PathIds :
              LET after == delete_conversation_store(conversations, sid)
              IN  IF sid \in DOMAIN conversations
                  THEN /\ delete_conversation_status(conversations, sid) = 200
                       /\ DOMAIN after = DOMAIN conversations \ {sid}
                       /\ \A other \in DOMAIN after :
                              after[other] = conversations[other]
                       /\ get_conversation_response(after, sid).status_code
                              = 404
                       /\ delete_conversation_status(after, sid) = 404
                  ELSE /\ delete_conversation_status(conversations, sid) = 404
                       /\ after = conversations)
    /\ [][\A sid \in PathIds \ DOMAIN conversations :
              /\ sid \notin DOMAIN conversations'
              /\ get_conversation_response(conversations', sid).status_code
                     = 404
              /\ delete_conversation_status(conversations', sid) = 404]_vars

\* One session has been deleted while another one, with messages, stays.
C16_Witness ==
    /\ \E sid \in Allocated : sid \notin DOMAIN conversations
    /\ \E other \in DOMAIN conversations :
           Len(conversations[other].messages) > 0

----------------------------------------------------------------------------
(* C17: a session's last_activity never decreases, and it is the current   *)
(* time after each access: a get_or_create_conversation that finds the     *)
(* session, an add_message_to_conversation on it, and a lookup of it.      *)

C17_EveryAccessRefreshes ==
    /\ [][/\ \A sid \in DOMAIN conversations \cap DOMAIN conversations' :
                 conversations'[sid].last_activity
                     >= conversations[sid].last_activity
          /\ \A r \in Requests :
                 (Started(r) /\ task'[r].resolved) =>
                     conversations'[task'[r].session_id].last_activity = now
          /\ \A r \in Requests :
                 (/\ task[r].pc = "awaiting"
                  /\ task'[r].pc = "done"
                  /\ task'[r].envelope.success
                  /\ task[r].session_id \in DOMAIN conversations) =>
                     conversations'[task[r].session_id].last_activity = now
         ]_vars
    /\ [](\A sid \in DOMAIN conversations :
              get_conversation_store(conversations, sid)[sid].last_activity
                  = now)

----------------------------------------------------------------------------
(* C18: a step adds a key to the dict only as the uuid4 drawn by the        *)
(* create branch of get_or_create_conversation, and removes keys only as   *)
(* the sweep of the expired ids or as the delete of one id; the passing of *)
(* time, the end of a backend call with its append, the sending of the     *)
(* envelope, a lookup and an append leave the key set as it is.            *)

Added == DOMAIN conversations' \ DOMAIN conversations
Removed == DOMAIN conversations \ DOMAIN conversations'

C18_KeySetChanges ==
    /\ [][/\ Added \subseteq {uuid4}
          /\ Added # {} => uuids' = uuids + 1
          /\ Removed # {} =>
                 \/ /\ Removed = ExpiredAt(conversations, now)
                    /\ expired_sessions' = Removed
                 \/ /\ Cardinality(Removed) = 1
                    /\ Added = {}
                    /\ UNCHANGED <<now, uuids, expired_sessions, task>>
          /\ \A r \in Requests :
                 task[r].pc \in {"awaiting", "done"} /\ task'[r] # task[r]
                     => Added = {} /\ Removed = {}
          /\ now' # now => Added = {} /\ Removed = {}
         ]_vars
    /\ [](\A sid \in PathIds :
              /\ DOMAIN add_message_to_conversation(conversations, sid,
                     "assistant", <<"a1">>, <<>>, now) = DOMAIN conversations
              /\ DOMAIN get_conversation_store(conversations, sid)
                     = DOMAIN conversations)

\* A sweep has removed a session and another session is stored.
C18_Witness ==
    /\ expired_sessions # {}
    /\ expired_sessions \cap DOMAIN conversations = {}
    /\ DOMAIN conversations # {}

----------------------------------------------------------------------------
(* C19: add_message_to_conversation on a stored session adds one message   *)
(* at the end of that session's list and sets its last_activity; every     *)
(* other session is left as it was, also when handlers working on          *)
(* different sessions interleave.                                          *)

\* The session is as before but for one more message and last_activity.
OneAppended(before, after, t) ==
    /\ Len(after.messages) = Len(before.messages) + 1
    /\ SubSeq(after.messages, 1, Len(before.messages)) = before.messages
    /\ after.created_at = before.created_at
    /\ after.session_id = before.session_id
    /\ after.last_activity = t

C19_AppendTouchesOneSession ==
    /\ [](\A sid \in DOMAIN conversations :
              LET after == add_message_to_conversation(conversations, sid,
                               "user", <<"p1">>, <<>>, now)
              IN  /\ DOMAIN after = DOMAIN conversations
                  /\ \A other \in DOMAIN conversations \ {sid} :
                         after[other] = conversations[other]
                  /\ OneAppended(conversations[sid], after[sid], now)
                  /\ LastOf(after[sid].messages)
                         = Message("user", <<"p1">>, <<>>, now))
    /\ [][\A r \in Requests :
              task'[r] # task[r] =>
                  LET sid == task'[r].session_id
                  IN  /\ \A other \in (DOMAIN conversations
                                          \cap DOMAIN conversations') \ {sid} :
                             conversations'[other] = conversations[other]
                      /\ (/\ task[r].pc = "awaiting"
                          /\ task'[r].envelope.success
                          /\ sid \in DOMAIN conversations) =>
                             OneAppended(conversations[sid],
                                         conversations'[sid], now)
         ]_vars

\* Two requests on two different sessions have both been answered.
C19_Witness ==
    \E r, q \in Requests :
        /\ task[r].pc = "done" /\ task[r].envelope.success
        /\ task[q].pc = "done" /\ task[q].envelope.success
        /\ task[r].session_id # task[q].session_id
        /\ task[r].session_id \in DOMAIN conversations
        /\ task[q].session_id \in DOMAIN conversations
        /\ Len(conversations[task[r].session_id].messages) = 2
        /\ Len(conversations[task[q].session_id].messages) = 2

----------------------------------------------------------------------------
(* C20: add_message_to_conversation on an id that is not in the dict       *)
(* returns the dict as it is; a handler whose session was deleted while it *)
(* waited for the backend therefore changes nothing when it goes on, and   *)
(* the session does not come back.                                         *)

C20_AppendToAbsentIsDropped ==
    /\ [](\A sid \in PathIds \ DOMAIN conversations :
              add_message_to_conversation(conversations, sid, "assistant",
                                          <<"a1">>, <<>>, now)
                  = conversations)
    /\ [][\A r \in Requests :
              (/\ task[r].pc = "awaiting"
               /\ task'[r].pc = "done"
               /\ task[r].session_id \notin DOMAIN conversations) =>
                  conversations' = conversations
         ]_vars

\* A request was answered successfully although its session had been
\* deleted while it waited.
C20_Witness ==
    \E r \in Requests :
        /\ task[r].pc = "done"
        /\ task[r].resolved
        /\ task[r].envelope.success
        /\ task[r].session_id \notin DOMAIN conversations

----------------------------------------------------------------------------
(* C21: the sweep removes the sessions whose last_activity lies more than  *)
(* the timeout back and no other, and leaves the sessions it keeps as they *)
(* were: a session whose age equals the timeout stays, and so does the     *)
(* session a request has just refreshed.                                   *)

\* How long ago the session was last used.
Age(sid) == now - conversations[sid].last_activity

\* The step ran get_or_create_conversation.
Resolved ==
    \/ uuids' # uuids
    \/ \E r \in Requests : Started(r) /\ task'[r].resolved

C21_SweepRemovesExactlyExpired ==
    /\ [](LET swept == cleanup_expired_conversations(conversations, now)
          IN  /\ DOMAIN swept =
                     {sid \in DOMAIN conversations :
                         Age(sid) <= CONVERSATION_TIMEOUT}
              /\ \A sid \in DOMAIN swept : swept[sid] = conversations[sid])
    /\ [][Resolved =>
              /\ Removed = {sid \in DOMAIN conversations :
                               Age(sid) > CONVERSATION_TIMEOUT}
              /\ expired_sessions' = Removed
              /\ \A sid \in DOMAIN conversations :
                     Age(sid) = CONVERSATION_TIMEOUT
                         => sid \in DOMAIN conversations'
              /\ \A r \in Requests :
                     (Started(r) /\ task'[r].resolved) =>
                         /\ task'[r].session_id \in
                                DOMAIN cleanup_expired_conversations(
                                           conversations', now')
                         /\ \A sid \in (DOMAIN conversations
                                           \cap DOMAIN conversations')
                                       \ {task'[r].session_id} :
                                conversations'[sid] = conversations[sid]
         ]_vars

\* The call that created a session at the present moment swept a session,
\* and kept one whose age is exactly the timeout.
C21_Witness ==
    /\ expired_sessions # {}
    /\ expired_sessions \cap DOMAIN conversations = {}
    /\ \E new \in DOMAIN conversations :
           conversations[new].created_at = now
    /\ \E sid \in DOMAIN conversations : Age(sid) = CONVERSATION_TIMEOUT

----------------------------------------------------------------------------
(* C22: every stored session was last used no earlier than it was created. *)

C22_ActivityNotBeforeCreation ==
    \A sid \in DOMAIN conversations :
        conversations[sid].last_activity >= conversations[sid].created_at

\* A session created after the start was used again later.
C22_Witness ==
    \E sid \in DOMAIN conversations :
        /\ conversations[sid].created_at > 0
        /\ conversations[sid].last_activity > conversations[sid].created_at

----------------------------------------------------------------------------
(* C23: a handler runs from get_or_create_conversation to the append of    *)
(* its user message in one step in which no other request acts: the        *)
(* session it resolved is in the dict it renders from and in the dict      *)
(* afterwards, with the user message as its last message.                  *)

C23_ResolveToAppendIsOneStep ==
    [][\A r \in Requests :
         (Started(r) /\ task'[r].payload.sent) =>
             LET sid == task'[r].session_id
                 rendered_from ==
                     get_or_create_store(conversations,
                         task'[r].request_session_id, uuid4, now)
             IN  /\ sid \in DOMAIN rendered_from
                 /\ sid \in DOMAIN conversations'
                 /\ LastOf(conversations'[sid].messages)
                        = UserTurn(task'[r], now)
                 /\ Len(conversations'[sid].messages)
                        = Len(rendered_from[sid].messages) + 1
                 /\ \A other \in DOMAIN rendered_from \ {sid} :
                        /\ other \in DOMAIN conversations'
                        /\ conversations'[other] = rendered_from[other]
                 /\ \A q \in Requests \ {r} : task'[q] = task[q]
      ]_vars

\* A request has recorded its user message while another request waits for
\* the backend.
C23_Witness ==
    \E r \in Requests :
        /\ task[r].pc = "awaiting"
        /\ task[r].session_id \in DOMAIN conversations
        /\ LastOf(conversations[task[r].session_id].messages)
               = UserTurn(task[r], now)
        /\ \E q \in Requests \ {r} : task[q].pc = "awaiting"

----------------------------------------------------------------------------
(* C24: in every stored session, each initial part of the message list has *)
(* at least as many user messages as assistant messages.                   *)

C24_UserTurnsLead ==
    \A sid \in DOMAIN conversations :
        LET messages == conversations[sid].messages
        IN  \A n \in 0..Len(messages) :
                Cardinality(WithRole(SubSeq(messages, 1, n), "user"))
                    >= Cardinality(WithRole(SubSeq(messages, 1, n),
                                            "assistant"))

\* A session that one request after another has extended, the first of
\* them answered.
C24_Witness ==
    \E sid \in DOMAIN conversations :
        /\ Len(conversations[sid].messages) >= 3
        /\ conversations[sid].messages[1].role = "user"
        /\ conversations[sid].messages[2].role = "assistant"
        /\ conversations[sid].messages[3].role = "user"

----------------------------------------------------------------------------
(* C25: the prompt is rendered from the session as it was before the       *)
(* request's own user message was added: with no history the prompt is the *)
(* request's text; otherwise it ends with "Human: text" and "Assistant:",  *)
(* has one history line for each of the last min(10, n) earlier messages,  *)
(* and, when no earlier message has the same text, holds the text once.    *)

\* How often the token sequence sub occurs in seq.
Occurrences(sub, seq) ==
    Cardinality({i \in 1..(Len(seq) - Len(sub) + 1) :
                    SubSeq(seq, i, i + Len(sub) - 1) = sub})

\* The history lines of a rendered prompt: each begins with a role and ": ".
HistoryLines(rendered) ==
    Cardinality({i \in 1..(Len(rendered) - 1) :
                    /\ rendered[i] \in {"Human", "Assistant"}
                    /\ rendered[i + 1] = ": "})

C25_RenderedBeforeOwnTurn ==
    [][\A r \in Requests :
         (Started(r) /\ task'[r].payload.sent) =>
             LET sid == task'[r].session_id
                 before == IF sid \in DOMAIN conversations
                           THEN conversations[sid].messages ELSE <<>>
                 text == UserTurn(task'[r], now).content
                 rendered == task'[r].payload.prompt
                 ending == <<"Human: ">> \o text \o <<"\n\n", "Assistant:">>
             IN  /\ conversations'[sid].messages
                        = Append(before, UserTurn(task'[r], now))
                 /\ IF Len(before) = 0
                    THEN rendered = text
                    ELSE /\ Len(rendered) > Len(ending)
                         /\ SubSeq(rendered, Len(rendered) - Len(ending) + 1,
                                   Len(rendered)) = ending
                         /\ HistoryLines(rendered)
                                = (IF Len(before) > 10 THEN 10
                                   ELSE Len(before))
                 /\ (\A i \in 1..Len(before) : before[i].content # text)
                        => Occurrences(text, rendered) = 1
      ]_vars

\* A request rendered a history of exactly 10 messages and then added its
\* own as the eleventh.
C25_Witness ==
    \E r \in Requests :
        /\ task[r].pc = "awaiting"
        /\ task[r].kind = "text"
        /\ task[r].session_id \in DOMAIN conversations
        /\ Len(conversations[task[r].session_id].messages) = 11
        /\ LastOf(conversations[task[r].session_id].messages)
               = UserTurn(task[r], now)

=============================================================================
